---- MODULE Spec2Model ----
(***************************************************************************)
(* State machine of the ReChange chat UI (src/App.tsx): the React state of *)
(* the App component, its event handlers, and the continuations of its     *)
(* asynchronous steps (file read, reply timer, generateEditedImage call).  *)
(*                                                                         *)
(* Every event handler runs against the latest render, so the values it    *)
(* closes over are the current state.  A continuation (the code after an   *)
(* await, a setTimeout callback) keeps the values its handler closed over  *)
(* when it started; these are stored in the records of calls, timers and   *)
(* fileReads.  Functional setState updaters read the state at the moment   *)
(* the continuation runs.                                                  *)
(*                                                                         *)
(* Date.now() is the variable clock; an id is the number whose decimal     *)
(* string the code uses, and the literal ids 'default' and 'welcome' are   *)
(* the number 0, which no clock reading equals.  Handlers that read the    *)
(* clock run at least two milliseconds apart.  The fields timestamp,       *)
(* updatedAt and the sidebarOpen flag only affect rendering and are left   *)
(* out.                                                                    *)
(***************************************************************************)
EXTENDS FiniteSets, Integers, Sequences, TLC

VARIABLES currentView, sessions, currentSessionId, gallery, inputText,
          selectedImage, isLoading, clock, calls, timers, fileReads

vars == <<currentView, sessions, currentSessionId, gallery, inputText,
          selectedImage, isLoading, clock, calls, timers, fileReads>>

-----------------------------------------------------------------------------
\* Bounds of the model.

\* User handlers that read the clock are enabled while clock < MaxClock.
MaxClock == 8

\* createNewSession is enabled while there are fewer sessions than this.
MaxSessions == 2

\* Files being read by fileToBase64 at the same time.
MaxFileReads == 1

-----------------------------------------------------------------------------
\* Values.

DefaultId == 0
WelcomeId == 0
TitleLen == 25

WelcomeText == "Welcome to ReChange by Bhavya Tamboli. I'm powered by the advanced Nano Banana model. Upload an image to start transforming your fashion or photos instantly."
WelcomeBackText == "Welcome to ReChange by Bhavya Tamboli. Start creating by uploading an image."
NeedImageText == "I need an image to start working. Please upload one first."
ErrorText == "Something went wrong. Please try again."
DefaultResultText == "Here is your result."
DefaultPrompt == "Enhance this image"
DefaultTitle == "Image Edit"

\* What the user may type: nothing, blanks only (a prompt shorter than
\* TitleLen that trim() empties), and a prompt longer than TitleLen.
LongText == "make the jacket bright red and the sky blue"
Texts == {"", "  ", LongText}

\* Files the user may pick in the file dialog.
Files == { [name |-> "a.png", type |-> "image/png"],
           [name |-> "notes.txt", type |-> "text/plain"] }

\* undefined / null for an ImageFile, a data URL and a string.
NoImage == [previewUrl |-> "", base64 |-> "", mimeType |-> "", file |-> ""]
NoUrl == [header |-> "", data |-> ""]
NoText == ""

\* What generateEditedImage may resolve with: an optional text and an
\* optional data URL of the generated image.
ApiTexts == {NoText, "Done."}
ApiUrls == { NoUrl,
             [header |-> "data:image/png;base64", data |-> "AAAA"] }

\* String.prototype.trim() on the texts above: strip blanks at both ends.
RECURSIVE TrimLeft(_)
TrimLeft(s) ==
    IF Len(s) > 0 /\ SubSeq(s, 1, 1) = " " THEN TrimLeft(SubSeq(s, 2, Len(s))) ELSE s

RECURSIVE TrimRight(_)
TrimRight(s) ==
    IF Len(s) > 0 /\ SubSeq(s, Len(s), Len(s)) = " "
    THEN TrimRight(SubSeq(s, 1, Len(s) - 1)) ELSE s

Trim(s) == TrimRight(TrimLeft(s))

\* String.prototype.slice(0, n).
Slice0(s, n) == IF Len(s) <= n THEN s ELSE SubSeq(s, 1, n)

\* String.prototype.startsWith.
StartsWith(s, p) == Len(s) >= Len(p) /\ SubSeq(s, 1, Len(p)) = p

\* fileToBase64 (services/geminiService): the base64 text of the file.
FileToBase64(f) == "base64:" \o f.name

\* URL.createObjectURL(file).
CreateObjectURL(f) == "blob:" \o f.name

\* extractBase64FromDataUrl (services/geminiService): the part after the comma.
ExtractBase64FromDataUrl(url) == url.data

\* The data URL as the string kept in GalleryItem.imageUrl / Message.imageUrl.
UrlString(url) == IF url = NoUrl THEN "" ELSE url.header \o "," \o url.data

-----------------------------------------------------------------------------
\* Session lookup and update.  Array.prototype.map is written as a sequence
\* constructor over the same indices.

SessionIds == {sessions[i].id : i \in 1..Len(sessions)}

HasSession(ss, sid) == \E i \in 1..Len(ss) : ss[i].id = sid

\* sessions.find(s => s.id === sid): the first match.
FindSession(ss, sid) ==
    ss[CHOOSE i \in 1..Len(ss) :
          /\ ss[i].id = sid
          /\ \A j \in 1..(i - 1) : ss[j].id # sid]

\* const currentSession = sessions.find(...) || sessions[0]
currentSession ==
    IF HasSession(sessions, currentSessionId)
    THEN FindSession(sessions, currentSessionId)
    ELSE sessions[1]

\* updateSession's updater: prev.map(s => s.id === sessionId ? {...s, ...updates} : s)
updateSession(ss, sessionId, updates) ==
    [i \in 1..Len(ss) |->
        IF ss[i].id = sessionId
        THEN [f \in DOMAIN ss[i] |->
                 IF f \in DOMAIN updates THEN updates[f] ELSE ss[i][f]]
        ELSE ss[i]]

NewMessage(id, role, text, imageUrl, originalImageUrl) ==
    [id |-> id, role |-> role, text |-> text, imageUrl |-> imageUrl,
     originalImageUrl |-> originalImageUrl]

-----------------------------------------------------------------------------
Init ==
    /\ currentView = "chat"
    /\ sessions = << [id |-> DefaultId, title |-> "New Project",
                      messages |-> <<NewMessage(WelcomeId, "model", WelcomeText, "", "")>>,
                      lastImage |-> NoImage] >>
    /\ currentSessionId = DefaultId
    /\ gallery = <<>>
    /\ inputText = ""
    /\ selectedImage = NoImage
    /\ isLoading = FALSE
    /\ clock = 1
    /\ calls = {}
    /\ timers = {}
    /\ fileReads = {}

-----------------------------------------------------------------------------
\* Session handlers.

createNewSession ==
    /\ Len(sessions) < MaxSessions
    /\ clock < MaxClock
    /\ sessions' = << [id |-> clock, title |-> "Untitled Project",
                       messages |-> <<>>, lastImage |-> NoImage] >> \o sessions
    /\ currentSessionId' = clock
    /\ currentView' = "chat"
    /\ selectedImage' = NoImage
    /\ clock' = clock + 2
    /\ UNCHANGED <<gallery, inputText, isLoading, calls, timers, fileReads>>

switchSession(id) ==
    /\ currentSessionId' = id
    /\ currentView' = "chat"
    /\ UNCHANGED <<sessions, gallery, inputText, selectedImage, isLoading,
                   clock, calls, timers, fileReads>>

\* sessions.filter(s => s.id !== id)
withoutSession(ss, id) == SelectSeq(ss, LAMBDA s : s.id # id)

\* Mutant: deleting the current session does not make another one current.
deleteSessionKeepsCurrent(id) ==
    LET newSessions == withoutSession(sessions, id) IN
    /\ IF Len(newSessions) = 0
       THEN /\ clock < MaxClock
            /\ sessions' = << [id |-> clock, title |-> "New Project",
                               messages |-> <<NewMessage(WelcomeId, "model",
                                                         WelcomeBackText, "", "")>>,
                               lastImage |-> NoImage] >>
            /\ currentSessionId' = clock
            /\ clock' = clock + 2
       ELSE /\ sessions' = newSessions
            /\ UNCHANGED <<currentSessionId, clock>>
    /\ UNCHANGED <<currentView, gallery, inputText, selectedImage, isLoading,
                   calls, timers, fileReads>>

deleteSession(id) ==
    LET newSessions == withoutSession(sessions, id) IN
    /\ IF currentSessionId = id /\ Len(newSessions) > 0
       THEN /\ sessions' = newSessions
            /\ currentSessionId' = newSessions[1].id
            /\ clock' = clock
       ELSE IF Len(newSessions) = 0
       THEN \* Create a default session if all are deleted
            /\ clock < MaxClock
            /\ sessions' = << [id |-> clock, title |-> "New Project",
                               messages |-> <<NewMessage(WelcomeId, "model",
                                                         WelcomeBackText, "", "")>>,
                               lastImage |-> NoImage] >>
            /\ currentSessionId' = clock
            /\ clock' = clock + 2
       ELSE /\ sessions' = newSessions
            /\ UNCHANGED <<currentSessionId, clock>>
    /\ UNCHANGED <<currentView, gallery, inputText, selectedImage, isLoading,
                   calls, timers, fileReads>>

-----------------------------------------------------------------------------
\* Gallery.

openGallery ==
    /\ currentView' = "gallery"
    /\ UNCHANGED <<sessions, currentSessionId, gallery, inputText, selectedImage,
                   isLoading, clock, calls, timers, fileReads>>

\* The "Start Creating" button of the empty gallery.
startCreating ==
    /\ currentView = "gallery"
    /\ gallery = <<>>
    /\ currentView' = "chat"
    /\ UNCHANGED <<sessions, currentSessionId, gallery, inputText, selectedImage,
                   isLoading, clock, calls, timers, fileReads>>

GalleryIds == {gallery[i].id : i \in 1..Len(gallery)}

\* Step 2 of deleteFromGallery: remove the image from the linked chat message.
clearLinkedImage(ss, item) ==
    [i \in 1..Len(ss) |->
        IF ss[i].id = item.sessionId
        THEN [ss[i] EXCEPT !.messages =
                 [k \in 1..Len(ss[i].messages) |->
                     IF ss[i].messages[k].id = item.messageId
                     THEN [ss[i].messages[k] EXCEPT !.imageUrl = ""]
                     ELSE ss[i].messages[k]]]
        ELSE ss[i]]

\* Every item of the gallery carries a sessionId and a messageId (handleSend
\* is the only producer), so the sync step always runs.
deleteFromGallery(itemId) ==
    LET itemToDelete == gallery[CHOOSE i \in 1..Len(gallery) :
                                   /\ gallery[i].id = itemId
                                   /\ \A j \in 1..(i - 1) : gallery[j].id # itemId]
    IN
    /\ currentView = "gallery"
    /\ gallery' = SelectSeq(gallery, LAMBDA g : g.id # itemId)
    /\ sessions' = clearLinkedImage(sessions, itemToDelete)
    /\ UNCHANGED <<currentView, currentSessionId, inputText, selectedImage,
                   isLoading, clock, calls, timers, fileReads>>

-----------------------------------------------------------------------------
\* Upload.

\* The upload button is rendered in the chat view and disabled while loading.
UploadEnabled == currentView = "chat" /\ ~isLoading

\* handleFileSelect up to its await: a file that is no image is rejected,
\* an image starts fileToBase64.
handleFileSelect(f) ==
    /\ UploadEnabled
    /\ IF StartsWith(f.type, "image/")
       THEN /\ Cardinality(fileReads) < MaxFileReads
            /\ fileReads' = fileReads \cup {f}
       ELSE fileReads' = fileReads
    /\ UNCHANGED <<currentView, sessions, currentSessionId, gallery, inputText,
                   selectedImage, isLoading, clock, calls, timers>>

\* fileToBase64 resolved: setSelectedImage.
fileLoaded(f) ==
    /\ f \in fileReads
    /\ fileReads' = fileReads \ {f}
    /\ selectedImage' = [file |-> f.name, previewUrl |-> CreateObjectURL(f),
                         base64 |-> FileToBase64(f), mimeType |-> f.type]
    /\ UNCHANGED <<currentView, sessions, currentSessionId, gallery, inputText,
                   isLoading, clock, calls, timers>>

\* fileToBase64 rejected: the error is logged and nothing is selected.
fileFailed(f) ==
    /\ f \in fileReads
    /\ fileReads' = fileReads \ {f}
    /\ UNCHANGED <<currentView, sessions, currentSessionId, gallery, inputText,
                   selectedImage, isLoading, clock, calls, timers>>

\* The X on the preview, rendered in the chat view while an image is selected.
handleRemoveImage ==
    /\ currentView = "chat"
    /\ selectedImage # NoImage
    /\ selectedImage' = NoImage
    /\ UNCHANGED <<currentView, sessions, currentSessionId, gallery, inputText,
                   isLoading, clock, calls, timers, fileReads>>

\* The textarea's onChange; the textarea is disabled while loading.
setInputText(t) ==
    /\ currentView = "chat"
    /\ ~isLoading
    /\ t # inputText
    /\ inputText' = t
    /\ UNCHANGED <<currentView, sessions, currentSessionId, gallery,
                   selectedImage, isLoading, clock, calls, timers, fileReads>>

-----------------------------------------------------------------------------
\* handleSend.

\* Mutant: the controls are not disabled while a call is outstanding.
SendEnabledWhileLoading == currentView = "chat"

\* The textarea (Enter key) and the send button are rendered in the chat
\* view and disabled while isLoading.
SendEnabled == currentView = "chat" /\ ~isLoading

\* Mutant: the context image is read from the first session of the list
\* instead of the current one.
ImageToUseFirstSession ==
    IF selectedImage # NoImage THEN selectedImage ELSE sessions[1].lastImage

\* 1. Determine Input Image (New Upload OR Last Session Image)
ImageToUse ==
    IF selectedImage # NoImage THEN selectedImage ELSE currentSession.lastImage

\* Update title if it's the first real message
NewTitle(session, prompt) ==
    IF Len(session.messages) <= 1
    THEN (IF Slice0(prompt, TitleLen) # "" THEN Slice0(prompt, TitleLen) ELSE DefaultTitle)
    ELSE session.title

\* The arguments handed to generateEditedImage.
ApiRequest(prompt, image) ==
    [prompt |-> IF prompt # "" THEN prompt ELSE DefaultPrompt,
     base64 |-> image.base64, mimeType |-> image.mimeType]

\* if (!inputText.trim() && !imageToUse) return;
sendIgnored ==
    /\ Trim(inputText) = ""
    /\ ImageToUse = NoImage
    /\ UNCHANGED vars

\* User text only, no history: post the message and start the reply timer.
sendTextOnly ==
    LET userMsg == NewMessage(clock, "user", inputText, "", "") IN
    /\ Trim(inputText) # ""
    /\ ImageToUse = NoImage
    /\ clock < MaxClock
    /\ sessions' = updateSession(sessions, currentSessionId,
                        [messages |-> Append(currentSession.messages, userMsg)])
    /\ inputText' = ""
    /\ timers' = timers \cup { [sessionId |-> currentSessionId,
                                messages |-> currentSession.messages,
                                userMsg |-> userMsg] }
    /\ clock' = clock + 2
    /\ UNCHANGED <<currentView, currentSessionId, gallery, selectedImage,
                   isLoading, calls, fileReads>>

\* 2. Prepare UI, 3. Call AI: everything up to the await.
sendWithImage ==
    LET prompt == inputText
        userMsg == NewMessage(clock, "user", prompt, "", selectedImage.previewUrl)
        updatedMessages == Append(currentSession.messages, userMsg)
    IN
    /\ ImageToUse # NoImage
    /\ clock < MaxClock
    /\ sessions' = updateSession(sessions, currentSessionId,
                        [messages |-> updatedMessages,
                         title |-> NewTitle(currentSession, prompt)])
    /\ inputText' = ""
    /\ selectedImage' = NoImage
    /\ isLoading' = TRUE
    /\ calls' = calls \cup { [sessionId |-> currentSessionId,
                              updatedMessages |-> updatedMessages,
                              prompt |-> prompt,
                              request |-> ApiRequest(prompt, ImageToUse),
                              lastImage |-> currentSession.lastImage,
                              selectedImage |-> selectedImage] }
    /\ clock' = clock + 2
    /\ UNCHANGED <<currentView, currentSessionId, gallery, timers, fileReads>>

handleSend ==
    /\ SendEnabled
    /\ \/ sendIgnored
       \/ sendTextOnly
       \/ sendWithImage

\* Mutant: the callback appends the reply to the list it closed over and
\* forgets the user's message.
timerUpdatesWithoutUserMsg(t, now) ==
    [messages |-> Append(t.messages, NewMessage(now + 1, "model", NeedImageText, "", ""))]

\* The setTimeout callback of the text-only branch, 600 ms later.
timerUpdates(t, now) ==
    [messages |-> t.messages \o
                  <<t.userMsg, NewMessage(now + 1, "model", NeedImageText, "", "")>>]

replyTimer(t) ==
    /\ t \in timers
    /\ timers' = timers \ {t}
    /\ sessions' = updateSession(sessions, t.sessionId, timerUpdates(t, clock))
    /\ clock' = clock + 2
    /\ UNCHANGED <<currentView, currentSessionId, gallery, inputText,
                   selectedImage, isLoading, calls, fileReads>>

-----------------------------------------------------------------------------
\* generateEditedImage settles.

\* Mutant: an analysed upload is not kept as context.
NextImageContextKeepsOld(c, imageUrl) ==
    IF imageUrl # NoUrl
    THEN [base64 |-> ExtractBase64FromDataUrl(imageUrl), mimeType |-> "image/png",
          previewUrl |-> UrlString(imageUrl), file |-> ""]
    ELSE c.lastImage

\* 5. Update Session Context (Memory)
NextImageContext(c, imageUrl) ==
    IF imageUrl # NoUrl
    THEN [base64 |-> ExtractBase64FromDataUrl(imageUrl), mimeType |-> "image/png",
          previewUrl |-> UrlString(imageUrl), file |-> ""]
    ELSE IF c.selectedImage # NoImage THEN c.selectedImage
    ELSE c.lastImage

\* Mutant: the new item goes to the end of the gallery.
galleryAfterAppended(g, c, imageUrl, now) ==
    IF imageUrl # NoUrl
    THEN Append(g, [id |-> now, imageUrl |-> UrlString(imageUrl), prompt |-> c.prompt,
                    messageId |-> now + 1, sessionId |-> c.sessionId])
    ELSE g

\* Add to Gallery with Links
galleryAfter(g, c, imageUrl, now) ==
    IF imageUrl # NoUrl
    THEN << [id |-> now, imageUrl |-> UrlString(imageUrl), prompt |-> c.prompt,
             messageId |-> now + 1, sessionId |-> c.sessionId] >> \o g
    ELSE g

\* 4. Handle Response: the updates of the try block.
successUpdates(c, text, imageUrl, now) ==
    [messages |-> Append(c.updatedMessages,
                         NewMessage(now + 1, "model",
                                    IF text # NoText THEN text ELSE DefaultResultText,
                                    UrlString(imageUrl), "")),
     lastImage |-> NextImageContext(c, imageUrl)]

\* Mutant: the catch block posts no message.
failureUpdatesSilent(c, now) == [messages |-> c.updatedMessages]

\* Mutant: the catch block keeps the upload of the failed send as context.
failureUpdatesKeepingUpload(c, now) ==
    [messages |-> Append(c.updatedMessages,
                         NewMessage(now + 1, "model", ErrorText, "", "")),
     lastImage |-> c.selectedImage]

\* The updates of the catch block.
failureUpdates(c, now) ==
    [messages |-> Append(c.updatedMessages,
                         NewMessage(now + 1, "model", ErrorText, "", ""))]

\* What becomes of the set of outstanding calls when call c settles: the
\* call is over, nothing is retried.
callsAfter(cs, c) == cs \ {c}

\* Mutant: the finally block is missing.
loadingAfterSettleStuck == isLoading

\* finally { setIsLoading(false) }
loadingAfterSettle == FALSE

apiResolved(c, text, imageUrl) ==
    /\ c \in calls
    /\ gallery' = galleryAfter(gallery, c, imageUrl, clock)
    /\ sessions' = updateSession(sessions, c.sessionId,
                                 successUpdates(c, text, imageUrl, clock))
    /\ isLoading' = loadingAfterSettle
    /\ calls' = callsAfter(calls, c)
    /\ clock' = clock + 2
    /\ UNCHANGED <<currentView, currentSessionId, inputText, selectedImage,
                   timers, fileReads>>

apiRejected(c) ==
    /\ c \in calls
    /\ sessions' = updateSession(sessions, c.sessionId, failureUpdates(c, clock))
    /\ isLoading' = loadingAfterSettle
    /\ calls' = callsAfter(calls, c)
    /\ clock' = clock + 2
    /\ UNCHANGED <<currentView, currentSessionId, gallery, inputText,
                   selectedImage, timers, fileReads>>

-----------------------------------------------------------------------------
Next ==
    \/ createNewSession
    \/ \E id \in SessionIds : switchSession(id)
    \/ \E id \in SessionIds : deleteSession(id)
    \/ openGallery
    \/ startCreating
    \/ \E itemId \in GalleryIds : deleteFromGallery(itemId)
    \/ \E f \in Files : handleFileSelect(f)
    \/ \E f \in fileReads : fileLoaded(f)
    \/ \E f \in fileReads : fileFailed(f)
    \/ handleRemoveImage
    \/ \E t \in Texts : setInputText(t)
    \/ handleSend
    \/ \E t \in timers : replyTimer(t)
    \/ \E c \in calls, text \in ApiTexts, imageUrl \in ApiUrls : apiResolved(c, text, imageUrl)
    \/ \E c \in calls : apiRejected(c)

Spec == Init /\ [][Next]_vars

\* generateEditedImage eventually returns or throws.
ApiSettles ==
    \E c \in calls :
        \/ apiRejected(c)
        \/ \E text \in ApiTexts, imageUrl \in ApiUrls : apiResolved(c, text, imageUrl)


LiveSpec == Spec /\ WF_vars(ApiSettles)

-----------------------------------------------------------------------------
\* Helpers of the properties.

Last(s) == s[Len(s)]

IsPrefix(s, t) == Len(s) <= Len(t) /\ \A i \in 1..Len(s) : t[i] = s[i]

\* A step of handleSend that starts a call, and the call it starts.
StartsCall == handleSend /\ calls' # calls

-----------------------------------------------------------------------------
\* C1: at most one generateEditedImage call is outstanding in every
\* reachable state, and isLoading is true exactly while one is outstanding
\* (so no call starts while isLoading is true).
C1_SingleCallInFlight ==
    /\ Cardinality(calls) <= 1
    /\ isLoading <=> calls # {}

\* A call is outstanding while the user has moved to another session and
\* opened the gallery.
C1_Witness ==
    /\ isLoading
    /\ currentView = "gallery"
    /\ \E c \in calls : c.sessionId # currentSessionId /\ HasSession(sessions, c.sessionId)

\* C2: when the call of a send is rejected, the originating session (while
\* it exists) gets the list at the time of the send, the user's message and
\* one model message with the generic error text; the call is not started
\* again and isLoading is false afterwards.
C2_FailureHandled ==
    [][ /\ \A c \in calls : apiRejected(c) =>
             /\ ~isLoading'
             /\ calls' = calls \ {c}
             /\ HasSession(sessions, c.sessionId) =>
                  LET after == FindSession(sessions', c.sessionId).messages IN
                  /\ Len(after) = Len(c.updatedMessages) + 1
                  /\ IsPrefix(c.updatedMessages, after)
                  /\ Last(after).role = "model"
                  /\ Last(after).text = ErrorText
                  /\ Last(after).imageUrl = ""
        /\ StartsCall =>
             /\ Cardinality(calls' \ calls) = 1
             /\ \A c \in calls' \ calls :
                  /\ c.sessionId = currentSessionId
                  /\ Len(c.updatedMessages) = Len(currentSession.messages) + 1
                  /\ IsPrefix(currentSession.messages, c.updatedMessages)
                  /\ Last(c.updatedMessages).role = "user"
                  /\ Last(c.updatedMessages).text = inputText
      ]_vars

\* A session ends with a user message and the error reply, nothing is
\* loading and no call is outstanding.
C2_Witness ==
    /\ ~isLoading
    /\ calls = {}
    /\ \E i \in 1..Len(sessions) :
         LET m == sessions[i].messages IN
         /\ Len(m) >= 2
         /\ m[Len(m)].text = ErrorText
         /\ m[Len(m) - 1].role = "user"

\* C3 (as claimed): the message list of a session that continues to exist
\* only grows at its end; a message keeps its position and changes at most
\* by having its imageUrl cleared.
C3_AppendOnly ==
    [][ \A i \in 1..Len(sessions) :
          HasSession(sessions', sessions[i].id) =>
            LET before == sessions[i].messages
                after == FindSession(sessions', sessions[i].id).messages
            IN
            /\ Len(before) <= Len(after)
            /\ \A k \in 1..Len(before) :
                 \/ after[k] = before[k]
                 \/ after[k] = [before[k] EXCEPT !.imageUrl = ""]
      ]_vars

\* C4 (as claimed): every gallery item refers to a session of the list and
\* to a message of that session.
C4_GalleryLinked ==
    \A i \in 1..Len(gallery) :
        /\ HasSession(sessions, gallery[i].sessionId)
        /\ \E m \in {FindSession(sessions, gallery[i].sessionId).messages[k] :
                       k \in 1..Len(FindSession(sessions, gallery[i].sessionId).messages)} :
             m.id = gallery[i].messageId

\* C5: a send passes the selected upload to the API if there is one and
\* otherwise the lastImage of the current session; it calls the API exactly
\* when one of the two exists, so the lastImage of another session is never
\* the input.
C5_ImageContext ==
    [][ handleSend =>
          LET own == FindSession(sessions, currentSessionId).lastImage
              image == IF selectedImage # NoImage THEN selectedImage ELSE own
          IN
          /\ (image # NoImage) <=> (calls' # calls)
          /\ \A c \in calls' \ calls :
               /\ c.sessionId = currentSessionId
               /\ c.request.base64 = image.base64
               /\ c.request.mimeType = image.mimeType
      ]_vars

\* A text-only send was made from a session without context after another
\* session had got its lastImage: the reply timer runs and no call was
\* started.
C5_Witness ==
    /\ calls = {}
    /\ \E t \in timers :
         /\ HasSession(sessions, t.sessionId)
         /\ FindSession(sessions, t.sessionId).lastImage = NoImage
         /\ \E i \in 1..Len(sessions) :
              /\ sessions[i].id # t.sessionId
              /\ sessions[i].lastImage # NoImage
              /\ Last(sessions[i].messages).role = "model"
              /\ Last(sessions[i].messages).id < t.userMsg.id

\* C6: if every call eventually settles, isLoading eventually becomes false
\* again, whatever happens to the sessions meanwhile; and isLoading only
\* becomes false in a step that settles a call.
C6_LoadingEnds ==
    /\ isLoading ~> ~isLoading
    /\ [][ (isLoading /\ ~isLoading') => \E c \in calls : c \notin calls' ]_vars

\* A call is outstanding whose session has been deleted.
C6_Witness ==
    /\ isLoading
    /\ \E c \in calls : ~HasSession(sessions, c.sessionId)

\* C7: a response with an image prepends one item to the gallery (image,
\* prompt, id of the response message, id of the originating session) and
\* keeps the earlier items in order; the originating session, while it
\* exists, gets the image as lastImage, which is what the next send without
\* upload uses.
C7_ImageResponse ==
    [][ \A c \in calls, text \in ApiTexts, imageUrl \in ApiUrls \ {NoUrl} :
          apiResolved(c, text, imageUrl) =>
            /\ Len(gallery') = Len(gallery) + 1
            /\ Tail(gallery') = gallery
            /\ Head(gallery').imageUrl = UrlString(imageUrl)
            /\ Head(gallery').prompt = Last(c.updatedMessages).text
            /\ Head(gallery').sessionId = c.sessionId
            /\ HasSession(sessions, c.sessionId) =>
                 LET after == FindSession(sessions', c.sessionId) IN
                 /\ after.lastImage.previewUrl = UrlString(imageUrl)
                 /\ Last(after.messages).role = "model"
                 /\ Last(after.messages).imageUrl = UrlString(imageUrl)
                 /\ Last(after.messages).id = Head(gallery').messageId
                 /\ (currentSessionId' = c.sessionId /\ selectedImage' = NoImage)
                      => ImageToUse' = after.lastImage
      ]_vars

\* Two images were generated: the later one is first in the gallery and is
\* the context of its session.
C7_Witness ==
    /\ Len(gallery) = 2
    /\ gallery[1].id > gallery[2].id
    /\ \E i \in 1..Len(sessions) :
         /\ sessions[i].id = gallery[1].sessionId
         /\ sessions[i].lastImage.previewUrl = gallery[1].imageUrl

\* C8: a response without an image leaves the gallery alone; the
\* originating session, while it exists, gets the upload of that send as
\* lastImage if there was one and keeps its lastImage otherwise.
C8_TextResponse ==
    [][ \A c \in calls, text \in ApiTexts :
          apiResolved(c, text, NoUrl) =>
            /\ gallery' = gallery
            /\ HasSession(sessions, c.sessionId) =>
                 LET before == FindSession(sessions, c.sessionId)
                     after == FindSession(sessions', c.sessionId)
                     userMsg == Last(c.updatedMessages)
                 IN
                 IF userMsg.originalImageUrl # ""
                 THEN /\ after.lastImage = c.selectedImage
                      /\ after.lastImage.previewUrl = userMsg.originalImageUrl
                 ELSE after.lastImage = before.lastImage
      ]_vars

\* A session's context is an uploaded file although nothing was generated:
\* its upload was answered without an image.
C8_Witness ==
    /\ gallery = <<>>
    /\ \E i \in 1..Len(sessions) :
         LET m == sessions[i].messages IN
         /\ sessions[i].lastImage.file # ""
         /\ Len(m) >= 2
         /\ m[Len(m)].role = "model"
         /\ m[Len(m)].imageUrl = ""
         /\ m[Len(m) - 1].originalImageUrl = sessions[i].lastImage.previewUrl

\* C9: a rejected call changes neither the gallery nor any session's
\* lastImage or title nor the selection; the send itself cleared the
\* selection without making it the context, so a following send without
\* upload from a session without lastImage starts no call.
C9_FailureKeepsContext ==
    [][ /\ \A c \in calls : apiRejected(c) =>
             /\ gallery' = gallery
             /\ selectedImage' = selectedImage
             /\ Len(sessions') = Len(sessions)
             /\ \A i \in 1..Len(sessions) :
                  /\ sessions'[i].id = sessions[i].id
                  /\ sessions'[i].title = sessions[i].title
                  /\ sessions'[i].lastImage = sessions[i].lastImage
        /\ StartsCall =>
             /\ selectedImage' = NoImage
             /\ FindSession(sessions', currentSessionId).lastImage
                  = FindSession(sessions, currentSessionId).lastImage
        /\ ( /\ handleSend
             /\ selectedImage = NoImage
             /\ FindSession(sessions, currentSessionId).lastImage = NoImage )
           => calls' = calls
      ]_vars

\* A send with an upload failed in a session without context, and the text
\* sent after it took the text-only branch: its timer runs, no call does.
C9_Witness ==
    /\ calls = {}
    /\ ~isLoading
    /\ \E t \in timers :
         /\ Len(t.messages) >= 2
         /\ Last(t.messages).text = ErrorText
         /\ t.messages[Len(t.messages) - 1].originalImageUrl # ""
         /\ HasSession(sessions, t.sessionId)
         /\ FindSession(sessions, t.sessionId).lastImage = NoImage

\* C10: a send of non-blank text without any image starts no call, leaves
\* isLoading false, appends the user message at once and starts one timer;
\* when the timer runs, the session (while it exists) ends with that user
\* message directly followed by one "I need an image" message; title,
\* lastImage and gallery stay as they are.  A send of blank text without
\* any image changes nothing.
C10_TextOnlySend ==
    [][ /\ ( handleSend /\ ImageToUse = NoImage /\ Trim(inputText) # "" ) =>
             LET before == FindSession(sessions, currentSessionId)
                 after == FindSession(sessions', currentSessionId)
             IN
             /\ calls' = calls
             /\ ~isLoading'
             /\ gallery' = gallery
             /\ after.messages = Append(before.messages, Last(after.messages))
             /\ Last(after.messages).role = "user"
             /\ Last(after.messages).text = inputText
             /\ after.title = before.title
             /\ after.lastImage = before.lastImage
             /\ Cardinality(timers' \ timers) = 1
             /\ \A t \in timers' \ timers : t.userMsg = Last(after.messages)
        /\ \A t \in timers : replyTimer(t) =>
             /\ calls' = calls
             /\ isLoading' = isLoading
             /\ gallery' = gallery
             /\ timers' = timers \ {t}
             /\ HasSession(sessions, t.sessionId) =>
                  LET before == FindSession(sessions, t.sessionId)
                      after == FindSession(sessions', t.sessionId)
                      n == Len(after.messages)
                  IN
                  /\ n >= 2
                  /\ after.messages[n - 1] = t.userMsg
                  /\ after.messages[n].role = "model"
                  /\ after.messages[n].text = NeedImageText
                  /\ Cardinality({k \in 1..n : after.messages[k].id = after.messages[n].id}) = 1
                  /\ after.title = before.title
                  /\ after.lastImage = before.lastImage
        /\ ( handleSend /\ ImageToUse = NoImage /\ Trim(inputText) = "" ) =>
             UNCHANGED vars
      ]_vars

\* The reply of a text-only send has arrived: a session without context
\* ends with a user message and the "I need an image" message, and nothing
\* is or was loading.
C10_Witness ==
    /\ ~isLoading
    /\ gallery = <<>>
    /\ timers = {}
    /\ \E i \in 1..Len(sessions) :
         LET m == sessions[i].messages IN
         /\ sessions[i].lastImage = NoImage
         /\ Len(m) >= 2
         /\ m[Len(m)].text = NeedImageText
         /\ m[Len(m) - 1].role = "user"
         /\ m[Len(m) - 1].originalImageUrl = ""

\* C11 (as claimed): the first user message sent in a session, one that
\* held no user message before, sets the title to the first TitleLen
\* characters of the prompt, or to "Image Edit" when the prompt is empty;
\* no later send changes the title.
C11_TitleOnFirstMessage ==
    [][ (handleSend /\ sessions' # sessions) =>
          LET before == FindSession(sessions, currentSessionId)
              after == FindSession(sessions', currentSessionId)
              firstUserMessage ==
                  \A k \in 1..Len(before.messages) : before.messages[k].role # "user"
          IN
          IF firstUserMessage
          THEN after.title = IF Slice0(inputText, TitleLen) # ""
                             THEN Slice0(inputText, TitleLen)
                             ELSE DefaultTitle
          ELSE after.title = before.title
      ]_vars

\* C12: the sessions list is never empty and currentSessionId is the id of
\* a session in it.  A step that removes a session keeps the others in
\* order and makes the first of them current if the removed one was
\* current, leaves currentSessionId alone otherwise; removing the only
\* session installs one fresh session holding a welcome message and makes
\* it current.
C12_CurrentSessionValid ==
    /\ [](Len(sessions) > 0 /\ HasSession(sessions, currentSessionId))
    /\ [][ \A id \in SessionIds : ~HasSession(sessions', id) =>
             LET remaining == SelectSeq(sessions, LAMBDA x : x.id # id) IN
             IF remaining = <<>>
             THEN /\ Len(sessions') = 1
                  /\ sessions'[1].id \notin SessionIds
                  /\ currentSessionId' = sessions'[1].id
                  /\ Len(sessions'[1].messages) = 1
                  /\ sessions'[1].messages[1].role = "model"
                  /\ sessions'[1].messages[1].id = WelcomeId
                  /\ sessions'[1].messages[1].text = WelcomeBackText
             ELSE /\ sessions' = remaining
                  /\ currentSessionId' = IF currentSessionId = id
                                         THEN remaining[1].id
                                         ELSE currentSessionId
         ]_vars

\* The only session was deleted while its send was outstanding: one fresh
\* session with the welcome message is current.
C12_Witness ==
    /\ isLoading
    /\ Len(sessions) = 1
    /\ sessions[1].id # DefaultId
    /\ currentSessionId = sessions[1].id
    /\ sessions[1].messages[1].text = WelcomeBackText
    /\ \E c \in calls : c.sessionId = DefaultId

\* C13 (as claimed): in a quiescent state (no call outstanding, no reply
\* timer pending) every user message of a session is directly followed by
\* a model message, and every model message other than the welcome message
\* at the head of the list directly follows a user message.
C13_PairedMessages ==
    (calls = {} /\ timers = {}) =>
      \A i \in 1..Len(sessions) :
        LET m == sessions[i].messages IN
        \A k \in 1..Len(m) :
          /\ m[k].role = "user" => (k < Len(m) /\ m[k + 1].role = "model")
          /\ (m[k].role = "model" /\ ~(k = 1 /\ m[k].id = WelcomeId))
               => (k > 1 /\ m[k - 1].role = "user")

====
